---- MODULE Spec2Model ----
(***************************************************************************)
(* ClassQuiz box-controller ("embedded") router.                           *)
(*                                                                         *)
(* The model follows src/classquiz/routers/box_controller/embedded.py:     *)
(*   join_game          (HTTP POST /join)                                  *)
(*   websocket_endpoint (one coroutine per websocket connection)           *)
(*   submit_answer_fn   (called by websocket_endpoint for a button press)  *)
(* Every "await" of the coroutines is a scheduling point of the event      *)
(* loop, so every store round-trip is one action of the model; the         *)
(* synchronous code between two awaits belongs to the action of the await  *)
(* that precedes it.                                                       *)
(*                                                                         *)
(* The redis store is modelled by the variables game, playerName, nameKey, *)
(* player_scores, answers and players, one per key family the router       *)
(* touches.  The module-level dict wss_clients is process memory.          *)
(***************************************************************************)
EXTENDS Integers, Sequences, FiniteSets, Bags, TLC

----------------------------------------------------------------------------
(* Bounds of the model *)

\* websocket connections (handler coroutines) that are ever opened
NumConns == 2
\* join_game requests that are ever made
NumJoins == 2
\* inbound websocket messages that are handled, over all connections
MaxMsgs == 2
\* largest elapsed time (in ticks) between question activation and a press
MaxElapsed == 1

----------------------------------------------------------------------------
(* Values *)

\* python's None where a string is expected (redis.get on an absent key)
None == "None"

Conns == 1..NumConns
Joins == 1..NumJoins

\* pins of the games that exist in the store ("game:{pin}")
GamePins == {"g1", "g2"}
\* a pin no game was created for
BogusPin == "gX"
KeyPins == GamePins \cup {BogusPin}

\* join codes ("game:cqc:code:{code}"); "cX" resolves to no game
Codes == {"c1", "c2", "cX"}

CodePin(code) ==
    CASE code = "c1" -> "g1"
      [] code = "c2" -> "g2"
      [] OTHER -> None

Names == {"alice", "bob"}

\* player ids that os.urandom(5).hex() can produce, and one it never minted
PlayerIds == Joins
UnknownPlayer == NumJoins + 1
AnyPlayerIds == PlayerIds \cup {UnknownPlayer}

\* websocket path parameter {id}
Ids == {"box1", "box2"}

\* QuizQuestionType
ABCD == "ABCD"
VOTING == "VOTING"
TEXT == "TEXT"

\* PlayGame.questions: the quiz snapshot each game was created with
Questions ==
    << [type |-> ABCD, time |-> 2,
        answers |-> << [answer |-> "A", right |-> FALSE],
                       [answer |-> "B", right |-> TRUE] >>],
       [type |-> VOTING, time |-> 2,
        answers |-> << [answer |-> "yes", right |-> FALSE],
                       [answer |-> "no", right |-> FALSE] >>] >>

\* the quiz of game g2: a free-text question, then a vote
Questions2 ==
    << [type |-> TEXT, time |-> 2,
        answers |-> << [answer |-> "paris", right |-> FALSE] >>],
       [type |-> VOTING, time |-> 2,
        answers |-> << [answer |-> "yes", right |-> FALSE],
                       [answer |-> "no", right |-> FALSE] >>] >>

\* game.questions of the game with that pin
QuestionsOf(pin) == IF pin = "g2" THEN Questions2 ELSE Questions

QIndex == 0..(Len(Questions) - 1)

\* WebSocketTypes
ButtonPress == "bp"
Error == "e"

\* button_to_index_map = {"b": 0, "g": 1, "y": 2, "r": 3}
Buttons == {"b", "g", "y", "r"}

button_to_index_map(b) ==
    CASE b = "b" -> 0
      [] b = "g" -> 1
      [] b = "y" -> 2
      [] b = "r" -> 3

\* the status code of ws.close for a duplicate id
WS_1001_GOING_AWAY == 1001

----------------------------------------------------------------------------
VARIABLES
    \* redis
    game,           \* "game:{pin}": PlayGame (started, current_question, question_show)
    playerName,     \* "game:cqc:player:{player_id}": display name or None
    nameKey,        \* "game_session:{pin}:players:{name}": the names that key exists for
    player_scores,  \* "game_session:{pin}:player_scores": hash username -> total
    answers,        \* "game_session:{pin}:{q}": AnswerDataList, <<>> when the key is absent
    players,        \* "game_session:{pin}:players": set of GamePlayer
    \* process memory
    wss_clients,    \* id -> connection
    \* socket.io
    events,         \* bag of the events handed to sio.emit
    \* join_game requests
    jpc, jreq,
    \* websocket_endpoint coroutines
    pc, conn, sub, nmsg, lastReply, lastResult

storeVars == <<game, playerName, nameKey, player_scores, answers, players>>
joinVars == <<jpc, jreq>>
connVars == <<pc, conn, sub, nmsg, lastReply, lastResult>>
vars == <<storeVars, wss_clients, events, joinVars, connVars>>

----------------------------------------------------------------------------
(* Initial state *)

\* PlayGame defaults: started = False, current_question = -1, question_show = False
PlayGame == [started |-> FALSE, current_question |-> -1, question_show |-> FALSE]

NoReq == [code |-> None, name |-> None, pin |-> None, status |-> 0, id |-> UnknownPlayer]

NoConn == [id |-> None, player_id |-> UnknownPlayer, game_pin |-> None,
           username |-> None, close |-> 0]

NoSub == [exists |-> FALSE, question_show |-> FALSE, current_question |-> -1,
          data_answer |-> -1, username |-> None, selected |-> None,
          right |-> FALSE, time_taken |-> 0, score |-> 0, read |-> <<>>, ok |-> FALSE,
          list |-> <<>>, player_count |-> 0]

\* what the last call of submit_answer_fn of a connection came to: how it ended,
\* the question it was for and the player count it read
Result(kind, q, count) == [kind |-> kind, q |-> q, count |-> count]
NoResult == Result("none", -1, 0)

Init ==
    /\ game = [p \in GamePins |-> PlayGame]
    /\ playerName = [i \in AnyPlayerIds |-> None]
    /\ nameKey = [p \in KeyPins |-> {}]
    /\ player_scores = [p \in KeyPins |-> [n \in Names \cup {None} |-> 0]]
    /\ answers = [p \in KeyPins |-> [q \in QIndex |-> <<>>]]
    /\ players = [p \in KeyPins |-> {}]
    /\ wss_clients = << >>
    /\ events = EmptyBag
    /\ jpc = [j \in Joins |-> "idle"]
    /\ jreq = [j \in Joins |-> NoReq]
    /\ pc = [h \in Conns |-> "idle"]
    /\ conn = [h \in Conns |-> NoConn]
    /\ sub = [h \in Conns |-> NoSub]
    /\ nmsg = 0
    /\ lastReply = [h \in Conns |-> "none"]
    /\ lastResult = [h \in Conns |-> NoResult]

----------------------------------------------------------------------------
(* join_game: POST /join *)

\* os.urandom(5).hex(): a player id no earlier request was given
FreshPlayerId(j) == j

\* line 29-31: resolve the code to a pin, 404 when there is none
JoinLookup(j, code, name) ==
    /\ jpc[j] = "idle"
    /\ LET game_pin == CodePin(code) IN
         IF game_pin = None
         THEN /\ jreq' = [jreq EXCEPT ![j] = [NoReq EXCEPT !.code = code, !.name = name,
                                                           !.status = 404]]
              /\ jpc' = [jpc EXCEPT ![j] = "done"]
         ELSE /\ jreq' = [jreq EXCEPT ![j] = [NoReq EXCEPT !.code = code, !.name = name,
                                                           !.pin = game_pin]]
              /\ jpc' = [jpc EXCEPT ![j] = "j32"]
    /\ UNCHANGED <<storeVars, wss_clients, events, connVars>>

\* JoinGetGame without the test of line 35: a started game is joined
JoinGetGame_NoStartedTest(j) ==
    /\ jpc[j] = "j32"
    /\ jpc' = [jpc EXCEPT ![j] = "j38"]
    /\ UNCHANGED jreq
    /\ UNCHANGED <<storeVars, wss_clients, events, connVars>>

\* line 32-36: read the game, 400 when it has started
JoinGetGame(j) ==
    /\ jpc[j] = "j32"
    /\ IF game[jreq[j].pin].started
       THEN /\ jreq' = [jreq EXCEPT ![j].status = 400]
            /\ jpc' = [jpc EXCEPT ![j] = "done"]
       ELSE /\ jpc' = [jpc EXCEPT ![j] = "j38"]
            /\ UNCHANGED jreq
    /\ UNCHANGED <<storeVars, wss_clients, events, connVars>>

\* line 38-39: 409 when "game_session:{pin}:players:{name}" exists
JoinCheckName(j) ==
    /\ jpc[j] = "j38"
    /\ IF jreq[j].name \in nameKey[jreq[j].pin]
       THEN /\ jreq' = [jreq EXCEPT ![j].status = 409]
            /\ jpc' = [jpc EXCEPT ![j] = "done"]
       ELSE /\ jpc' = [jpc EXCEPT ![j] = "j42"]
            /\ UNCHANGED jreq
    /\ UNCHANGED <<storeVars, wss_clients, events, connVars>>

\* line 41-43: mint the identity, bind it to the name, answer "{player_id}:{game_pin}"
JoinMint(j) ==
    /\ jpc[j] = "j42"
    /\ LET player_id == FreshPlayerId(j) IN
         /\ playerName' = [playerName EXCEPT ![player_id] = jreq[j].name]
         /\ jreq' = [jreq EXCEPT ![j].status = 200, ![j].id = player_id]
    /\ jpc' = [jpc EXCEPT ![j] = "done"]
    /\ UNCHANGED <<game, nameKey, player_scores, answers, players,
                   wss_clients, events, connVars>>

\* a participant joins through the browser client (classquiz.socket_server, which
\* is no part of this router) and holds "game_session:{pin}:players:{name}"
BrowserJoin(pin, name) ==
    /\ ~game[pin].started
    /\ name \notin nameKey[pin]
    /\ nameKey' = [nameKey EXCEPT ![pin] = @ \cup {name}]
    /\ UNCHANGED <<game, playerName, player_scores, answers, players,
                   wss_clients, events, joinVars, connVars>>

----------------------------------------------------------------------------
(* The host, who drives the lifecycle of a game through the browser client *)

\* LOBBY -> QUESTION_ACTIVE for question 0
HostStart(pin) ==
    /\ ~game[pin].started
    /\ game' = [game EXCEPT ![pin] = [started |-> TRUE, current_question |-> 0,
                                      question_show |-> TRUE]]
    /\ UNCHANGED <<playerName, nameKey, player_scores, answers, players,
                   wss_clients, events, joinVars, connVars>>

\* QUESTION_ACTIVE -> QUESTION_CLOSED
HostClose(pin) ==
    /\ game[pin].started
    /\ game[pin].question_show
    /\ game' = [game EXCEPT ![pin].question_show = FALSE]
    /\ UNCHANGED <<playerName, nameKey, player_scores, answers, players,
                   wss_clients, events, joinVars, connVars>>

\* QUESTION_CLOSED -> QUESTION_ACTIVE for the next question
HostAdvance(pin) ==
    /\ game[pin].started
    /\ ~game[pin].question_show
    /\ game[pin].current_question + 1 < Len(QuestionsOf(pin))
    /\ game' = [game EXCEPT ![pin].current_question = @ + 1,
                            ![pin].question_show = TRUE]
    /\ UNCHANGED <<playerName, nameKey, player_scores, answers, players,
                   wss_clients, events, joinVars, connVars>>

----------------------------------------------------------------------------
(* websocket_endpoint: /socket/{id}?game_id={player_id}:{game_pin} *)

\* what a client can send: text that is no WebSocketRequest, an "e" request,
\* a button press with a known button (in either case) or with another value
Malformed == [valid |-> FALSE, type |-> None, data |-> None]
Requests ==
    {[valid |-> TRUE, type |-> Error, data |-> None]}
        \cup {[valid |-> TRUE, type |-> ButtonPress, data |-> d] :
                d \in {"b", "g", "r", "G", "x"}}
Messages == {Malformed} \cup Requests

\* str.lower()
lower(s) ==
    CASE s = "B" -> "b"
      [] s = "G" -> "g"
      [] s = "Y" -> "y"
      [] s = "R" -> "r"
      [] OTHER -> s

Event(name, room, pin, q, username) ==
    [name |-> name, room |-> room, pin |-> pin, q |-> q, username |-> username]

AdminRoom(pin) == [kind |-> "admin", pin |-> pin]
\* sio.emit without room= reaches every client of the namespace
NoRoom == [kind |-> "all", pin |-> None]

Emit(e) == events (+) SetToBag({e})

\* line 112-117: the membership test, then close(1001) or accept()
Connect(h, id, player_id, game_pin) ==
    /\ pc[h] = "idle"
    /\ IF id \in DOMAIN wss_clients
       THEN /\ conn' = [conn EXCEPT ![h] = [NoConn EXCEPT !.id = id,
                                                          !.close = WS_1001_GOING_AWAY]]
            /\ pc' = [pc EXCEPT ![h] = "closed"]
       ELSE /\ conn' = [conn EXCEPT ![h] = [NoConn EXCEPT !.id = id,
                                                          !.player_id = player_id,
                                                          !.game_pin = game_pin]]
            /\ pc' = [pc EXCEPT ![h] = "accept"]
    /\ UNCHANGED <<storeVars, wss_clients, events, joinVars, sub, nmsg,
                   lastReply, lastResult>>

\* line 118-124: accept() has returned; wss_clients[id] = ws; split game_id. A
\* game_id that does not split in two at ":" (game_pin None here) makes the
\* unpacking of line 120 raise a ValueError, which nothing catches
Register(h) ==
    /\ pc[h] = "accept"
    /\ wss_clients' = [i \in DOMAIN wss_clients \cup {conn[h].id} |->
                          IF i = conn[h].id THEN h ELSE wss_clients[i]]
    /\ pc' = [pc EXCEPT ![h] = IF conn[h].game_pin = None THEN "crashed" ELSE "l124"]
    /\ UNCHANGED <<storeVars, events, joinVars, conn, sub, nmsg, lastReply, lastResult>>

\* line 124: username = redis.get("game:cqc:player:{player_id}")
GetUsername(h) ==
    /\ pc[h] = "l124"
    /\ conn' = [conn EXCEPT ![h].username = playerName[conn[h].player_id]]
    /\ pc' = [pc EXCEPT ![h] = "l125"]
    /\ UNCHANGED <<storeVars, wss_clients, events, joinVars, sub, nmsg,
                   lastReply, lastResult>>

\* line 125-129: sio.emit("player_joined", ..., room="admin:{game_pin}")
EmitJoined(h) ==
    /\ pc[h] = "l125"
    /\ events' = Emit(Event("player_joined", AdminRoom(conn[h].game_pin),
                            conn[h].game_pin, -1, conn[h].username))
    /\ pc' = [pc EXCEPT ![h] = "l130"]
    /\ UNCHANGED <<storeVars, wss_clients, joinVars, conn, sub, nmsg,
                   lastReply, lastResult>>

\* line 130: GamePlayer(username=username, sid=None) raises a ValidationError for
\* username None (the field is a str); else redis.sadd of the roster
AddPlayer(h) ==
    /\ pc[h] = "l130"
    /\ IF conn[h].username = None
       THEN /\ pc' = [pc EXCEPT ![h] = "crashed"]
            /\ UNCHANGED players
       ELSE /\ players' = [players EXCEPT ![conn[h].game_pin] = @ \cup {conn[h].username}]
            /\ pc' = [pc EXCEPT ![h] = "recv"]
    /\ UNCHANGED <<game, playerName, nameKey, player_scores, answers,
                   wss_clients, events, joinVars, conn, sub, nmsg, lastReply, lastResult>>

\* Receive without the except clauses of lines 136 and 144: text that is no
\* request or names no button ends the handler
Receive_NoExcept(h, msg) ==
    /\ pc[h] = "recv"
    /\ nmsg < MaxMsgs
    /\ nmsg' = nmsg + 1
    /\ IF ~msg.valid
       THEN /\ lastReply' = [lastReply EXCEPT ![h] = "none"]
            /\ lastResult' = [lastResult EXCEPT ![h] = Result("malformed", -1, 0)]
            /\ pc' = [pc EXCEPT ![h] = "crashed"]
            /\ UNCHANGED sub
       ELSE IF msg.type # ButtonPress
       THEN /\ lastReply' = [lastReply EXCEPT ![h] = "none"]
            /\ lastResult' = [lastResult EXCEPT ![h] = Result("no_press", -1, 0)]
            /\ UNCHANGED <<pc, sub>>
       ELSE IF lower(msg.data) \notin Buttons
       THEN /\ lastReply' = [lastReply EXCEPT ![h] = "none"]
            /\ lastResult' = [lastResult EXCEPT ![h] = Result("unknown_button", -1, 0)]
            /\ pc' = [pc EXCEPT ![h] = "crashed"]
            /\ UNCHANGED sub
       ELSE /\ lastReply' = [lastReply EXCEPT ![h] = "none"]
            /\ lastResult' = [lastResult EXCEPT ![h] = NoResult]
            /\ sub' = [sub EXCEPT ![h] =
                          [NoSub EXCEPT !.data_answer = button_to_index_map(lower(msg.data))]]
            /\ pc' = [pc EXCEPT ![h] = "l51"]
    /\ UNCHANGED <<storeVars, wss_clients, events, joinVars, conn>>

\* line 133-149: one inbound message
Receive(h, msg) ==
    /\ pc[h] = "recv"
    /\ nmsg < MaxMsgs
    /\ nmsg' = nmsg + 1
    /\ IF ~msg.valid
       THEN \* line 136-138
            /\ lastReply' = [lastReply EXCEPT ![h] = "ValidationError"]
            /\ lastResult' = [lastResult EXCEPT ![h] = Result("malformed", -1, 0)]
            /\ UNCHANGED <<pc, sub>>
       ELSE IF msg.type # ButtonPress
       THEN \* line 149
            /\ lastReply' = [lastReply EXCEPT ![h] = "none"]
            /\ lastResult' = [lastResult EXCEPT ![h] = Result("no_press", -1, 0)]
            /\ UNCHANGED <<pc, sub>>
       ELSE IF lower(msg.data) \notin Buttons
       THEN \* line 144-146
            /\ lastReply' = [lastReply EXCEPT ![h] = "InvalidButton"]
            /\ lastResult' = [lastResult EXCEPT ![h] = Result("unknown_button", -1, 0)]
            /\ UNCHANGED <<pc, sub>>
       ELSE \* line 143, 148
            /\ lastReply' = [lastReply EXCEPT ![h] = "none"]
            /\ lastResult' = [lastResult EXCEPT ![h] = NoResult]
            /\ sub' = [sub EXCEPT ![h] =
                          [NoSub EXCEPT !.data_answer = button_to_index_map(lower(msg.data))]]
            /\ pc' = [pc EXCEPT ![h] = "l51"]
    /\ UNCHANGED <<storeVars, wss_clients, events, joinVars, conn>>

\* Disconnect that also takes the player off the roster
Disconnect_DropsPlayer(h) ==
    /\ pc[h] = "recv"
    /\ wss_clients' = [i \in DOMAIN wss_clients \ {conn[h].id} |-> wss_clients[i]]
    /\ players' = [players EXCEPT ![conn[h].game_pin] = @ \ {conn[h].username}]
    /\ pc' = [pc EXCEPT ![h] = "disconnected"]
    /\ UNCHANGED <<game, playerName, nameKey, player_scores, answers, events, joinVars,
                   conn, sub, nmsg, lastReply, lastResult>>

\* line 133, 151-153: receive_text raises WebSocketDisconnect
Disconnect(h) ==
    /\ pc[h] = "recv"
    /\ wss_clients' = [i \in DOMAIN wss_clients \ {conn[h].id} |-> wss_clients[i]]
    /\ pc' = [pc EXCEPT ![h] = "disconnected"]
    /\ UNCHANGED <<storeVars, events, joinVars, conn, sub, nmsg, lastReply, lastResult>>

----------------------------------------------------------------------------
(* submit_answer_fn(data_answer, game_pin, player_id, now) *)

\* classquiz.socket_server.calculate_score(time_taken, question_time): bounded,
\* non-increasing in the elapsed time, positive for an answer given in time
MaxScore == 2
calculate_score(diff, time) == IF diff >= time THEN 0 ELSE MaxScore - diff

AnswerData(username, answer, right, time_taken, score) ==
    [username |-> username, answer |-> answer, right |-> right,
     time_taken |-> time_taken, score |-> score]

\* classquiz.socket_server.set_answer(answers, game_pin, data, q_index): adds data
\* to the list it was handed and stores the list under the question's key, unless
\* the list already holds a record of that player; then nothing is stored and the
\* result is None
set_answer(answers_in, data) ==
    IF \E i \in 1..Len(answers_in) : answers_in[i].username = data.username
    THEN [ok |-> FALSE, list |-> <<>>]
    ELSE [ok |-> TRUE, list |-> Append(answers_in, data)]

\* answer_right that takes any entry with the selected text, marked right or not
answer_right_AnyMatch(question, selected_answer) ==
    /\ question.type = ABCD
    /\ \E i \in 1..Len(question.answers) :
          question.answers[i].answer = selected_answer

\* line 64-73: the loop over question.answers
answer_right(question, selected_answer) ==
    /\ question.type = ABCD
    /\ \E i \in 1..Len(question.answers) :
          question.answers[i].answer = selected_answer /\ question.answers[i].right

Return(h, result) ==
    /\ pc' = [pc EXCEPT ![h] = "recv"]
    /\ sub' = [sub EXCEPT ![h] = NoSub]
    /\ lastResult' = [lastResult EXCEPT ![h] =
                          Result(result, sub[h].current_question, sub[h].player_count)]

\* line 51: redis.get("game:{game_pin}")
SubmitGetGame(h) ==
    /\ pc[h] = "l51"
    /\ LET pin == conn[h].game_pin IN
         IF pin \in DOMAIN game
         THEN sub' = [sub EXCEPT ![h].exists = TRUE,
                                 ![h].question_show = game[pin].question_show,
                                 ![h].current_question = game[pin].current_question]
         ELSE sub' = [sub EXCEPT ![h].exists = FALSE]
    /\ pc' = [pc EXCEPT ![h] = "l52"]
    /\ UNCHANGED <<storeVars, wss_clients, events, joinVars, conn, nmsg,
                   lastReply, lastResult>>

\* SubmitGetUsername without the test of line 56: a closed question is scored
SubmitGetUsername_NoShowTest(h) ==
    /\ pc[h] = "l52"
    /\ LET username == playerName[conn[h].player_id] IN
         IF ~sub[h].exists \/ username = None
         THEN /\ pc' = [pc EXCEPT ![h] = "crashed"]
              /\ sub' = [sub EXCEPT ![h] = NoSub]
              /\ lastResult' = [lastResult EXCEPT ![h] = Result("not_found", -1, 0)]
         ELSE IF sub[h].current_question < 0
         THEN Return(h, "not_shown")
         ELSE /\ sub' = [sub EXCEPT ![h].username = username]
              /\ pc' = [pc EXCEPT ![h] = "l59"]
              /\ UNCHANGED lastResult
    /\ UNCHANGED <<storeVars, wss_clients, events, joinVars, conn, nmsg, lastReply>>

\* line 52-58: redis.get of the username; HTTPException(404) is not caught by
\* websocket_endpoint; return when the question is not shown
SubmitGetUsername(h) ==
    /\ pc[h] = "l52"
    /\ LET username == playerName[conn[h].player_id] IN
         IF ~sub[h].exists \/ username = None
         THEN /\ pc' = [pc EXCEPT ![h] = "crashed"]
              /\ sub' = [sub EXCEPT ![h] = NoSub]
              /\ lastResult' = [lastResult EXCEPT ![h] = Result("not_found", -1, 0)]
         ELSE IF ~sub[h].question_show
         THEN Return(h, "not_shown")
         ELSE /\ sub' = [sub EXCEPT ![h].username = username]
              /\ pc' = [pc EXCEPT ![h] = "l59"]
              /\ UNCHANGED lastResult
    /\ UNCHANGED <<storeVars, wss_clients, events, joinVars, conn, nmsg, lastReply>>

\* line 59-77: redis.get of the activation time, the selected answer, its
\* correctness and its score; elapsed is abs(question_time - now)
SubmitGetTime(h, elapsed) ==
    /\ pc[h] = "l59"
    /\ LET question == QuestionsOf(conn[h].game_pin)[sub[h].current_question + 1]
           idx == sub[h].data_answer + 1
       IN
         IF idx > Len(question.answers)
         THEN \* IndexError is not the KeyError that line 62 catches
              /\ pc' = [pc EXCEPT ![h] = "crashed"]
              /\ sub' = [sub EXCEPT ![h] = NoSub]
              /\ lastResult' = [lastResult EXCEPT ![h] =
                                    Result("index_error", sub[h].current_question, 0)]
         ELSE IF question.type \notin {ABCD, VOTING}
         THEN Return(h, "not_scored")
         ELSE LET selected_answer == question.answers[idx].answer
                  right == answer_right(question, selected_answer)
                  score == IF right THEN calculate_score(elapsed, question.time) ELSE 0
              IN /\ sub' = [sub EXCEPT ![h].selected = selected_answer,
                                       ![h].right = right,
                                       ![h].time_taken = elapsed,
                                       ![h].score = score]
                 /\ pc' = [pc EXCEPT ![h] = "l78"]
                 /\ UNCHANGED lastResult
    /\ UNCHANGED <<storeVars, wss_clients, events, joinVars, conn, nmsg, lastReply>>

\* line 78: redis.hincrby(player_scores, username, score)
SubmitIncrScore(h) ==
    /\ pc[h] = "l78"
    /\ player_scores' = [player_scores EXCEPT
                            ![conn[h].game_pin][sub[h].username] = @ + sub[h].score]
    /\ pc' = [pc EXCEPT ![h] = "l86"]
    /\ UNCHANGED <<game, playerName, nameKey, answers, players, wss_clients, events,
                   joinVars, conn, sub, nmsg, lastReply, lastResult>>

\* line 86: answers = redis.get("game_session:{game_pin}:{current_question}")
SubmitGetAnswers(h) ==
    /\ pc[h] = "l86"
    /\ sub' = [sub EXCEPT ![h].read = answers[conn[h].game_pin][sub[h].current_question]]
    /\ pc' = [pc EXCEPT ![h] = "l87"]
    /\ UNCHANGED <<storeVars, wss_clients, events, joinVars, conn, nmsg,
                   lastReply, lastResult>>

\* line 79-85, 87: answers = set_answer(answers, ...)
SubmitSetAnswer(h) ==
    /\ pc[h] = "l87"
    /\ LET data == AnswerData(sub[h].username, sub[h].selected, sub[h].right,
                              sub[h].time_taken, sub[h].score)
           res == set_answer(sub[h].read, data)
       IN /\ answers' = IF res.ok
                        THEN [answers EXCEPT
                                 ![conn[h].game_pin][sub[h].current_question] = res.list]
                        ELSE answers
          /\ sub' = [sub EXCEPT ![h].ok = res.ok, ![h].list = res.list, ![h].read = <<>>]
    /\ pc' = [pc EXCEPT ![h] = "l88"]
    /\ UNCHANGED <<game, playerName, nameKey, player_scores, players, wss_clients,
                   events, joinVars, conn, nmsg, lastReply, lastResult>>

\* line 88: player_count = redis.scard(players)
SubmitCount(h) ==
    /\ pc[h] = "l88"
    /\ sub' = [sub EXCEPT ![h].player_count = Cardinality(players[conn[h].game_pin])]
    /\ pc' = [pc EXCEPT ![h] = "l90"]
    /\ UNCHANGED <<storeVars, wss_clients, events, joinVars, conn, nmsg,
                   lastReply, lastResult>>

\* line 90-91: sio.emit("everyone_answered", {})
SubmitEmit(h) ==
    /\ pc[h] = "l90"
    /\ events' = IF sub[h].ok /\ Len(sub[h].list) = sub[h].player_count
                 THEN Emit(Event("everyone_answered", NoRoom, conn[h].game_pin,
                                 sub[h].current_question, None))
                 ELSE events
    /\ Return(h, IF sub[h].ok THEN "recorded" ELSE "duplicate")
    /\ UNCHANGED <<storeVars, wss_clients, joinVars, conn, nmsg, lastReply>>

----------------------------------------------------------------------------
(* Specifications *)

HostStep(pin) == HostStart(pin) \/ HostClose(pin) \/ HostAdvance(pin)

JoinStep(j, codes, names) ==
    \/ \E code \in codes, name \in names : JoinLookup(j, code, name)
    \/ JoinGetGame(j)
    \/ JoinCheckName(j)
    \/ JoinMint(j)

SubmitStep(h, times) ==
    \/ SubmitGetGame(h)
    \/ SubmitGetUsername(h)
    \/ \E elapsed \in times : SubmitGetTime(h, elapsed)
    \/ SubmitIncrScore(h)
    \/ SubmitGetAnswers(h)
    \/ SubmitSetAnswer(h)
    \/ SubmitCount(h)
    \/ SubmitEmit(h)

ConnStep(h, ids, pids, pins, msgs, times) ==
    \/ \E id \in ids, player_id \in pids, game_pin \in pins :
          Connect(h, id, player_id, game_pin)
    \/ Register(h)
    \/ GetUsername(h)
    \/ EmitJoined(h)
    \/ AddPlayer(h)
    \/ \E msg \in msgs : Receive(h, msg)
    \/ Disconnect(h)
    \/ SubmitStep(h, times)

\* the identities join_game has returned so far
ReturnedIds == {jreq[j].id : j \in {k \in Joins : jreq[k].status = 200}}

\* one box per connection, as long as there are boxes
BoxOf(h) == IF h = 1 THEN "box1" ELSE "box2"

Press(d) == [valid |-> TRUE, type |-> ButtonPress, data |-> d]

\* Boxes that joined game g1 and press buttons while the host runs the game
NextSubmit ==
    \/ HostStep("g1")
    \/ \E j \in Joins : JoinStep(j, {"c1"}, Names)
    \/ \E h \in Conns : ConnStep(h, {BoxOf(h)}, ReturnedIds, {"g1"},
                                 {Press("b"), Press("g")}, 0..MaxElapsed)

SpecSubmit == Init /\ [][NextSubmit]_vars

\* Joins of two games by name, next to a participant of the browser client
NextJoin ==
    \/ \E pin \in GamePins : HostStart(pin)
    \/ BrowserJoin("g1", "bob")
    \/ \E j \in Joins : JoinStep(j, Codes, Names)

SpecJoin == Init /\ [][NextJoin]_vars

\* The connections of one box come and go while the host runs game g1: they
\* carry the identity join_game returned and send text that is no request and
\* button presses
Next ==
    \/ HostStep("g1")
    \/ JoinStep(1, {"c1"}, {"alice"})
    \/ \E h \in Conns : ConnStep(h, {"box1"}, ReturnedIds, {"g1"},
                                 {Malformed, Press("g")}, {0})

Spec == Init /\ [][Next]_vars

\* Two games run at once, g1 with a choice question and g2 with a text question:
\* boxes join either and connect with either game pin
NextTwo ==
    \/ \E pin \in GamePins : HostStart(pin)
    \/ \E j \in Joins : JoinStep(j, {"c1", "c2"}, {"alice"})
    \/ \E h \in Conns : ConnStep(h, {BoxOf(h)}, ReturnedIds, GamePins,
                                 {Press("b")}, {0})

SpecTwo == Init /\ [][NextTwo]_vars

\* One connection of one box answers the choice question and the vote of game
\* g1 with either of the first two buttons, early or late
NextScore ==
    \/ HostStep("g1")
    \/ JoinStep(1, {"c1"}, {"alice"})
    \/ ConnStep(1, {"box1"}, ReturnedIds, {"g1"},
                {Press("b"), Press("g")}, 0..MaxElapsed)

SpecScore == Init /\ [][NextScore]_vars

\* The connections of one box send text that is no request, a press of a button
\* that does not exist and a press of the second button
NextReplies ==
    \/ HostStep("g1")
    \/ JoinStep(1, {"c1"}, {"alice"})
    \/ \E h \in Conns : ConnStep(h, {"box1"}, ReturnedIds, {"g1"},
                                 {Malformed, Press("x"), Press("g")}, {0})

SpecReplies == Init /\ [][NextReplies]_vars

\* Boxes connect with identities join_game returned or made up, with the pin of
\* game g1, of no game or with a game_id that has no pin, and press the second
\* and the fourth button
NextFaults ==
    \/ HostStep("g1")
    \/ JoinStep(1, {"c1"}, {"alice"})
    \/ \E h \in Conns : ConnStep(h, {BoxOf(h)}, ReturnedIds \cup {UnknownPlayer},
                                 {"g1", BogusPin, None}, {Press("g"), Press("r")}, {0})

SpecFaults == Init /\ [][NextFaults]_vars

----------------------------------------------------------------------------
(* Properties *)

RECURSIVE SumScores(_)
SumScores(list) ==
    IF list = <<>> THEN 0 ELSE Head(list).score + SumScores(Tail(list))

RecordsOf(list, u) == SelectSeq(list, LAMBDA r : r.username = u)

\* the connection's coroutine is inside submit_answer_fn
InSubmit(h) == pc[h] \in {"l51", "l52", "l59", "l78", "l86", "l87", "l88", "l90"}

\* the coroutine is past the test of line 56
PastShowTest(h) == pc[h] \in {"l59", "l78", "l86", "l87", "l88", "l90"}

\* the sum of the scores of u's records over all questions of the game
RecordedScore(pin, u) ==
    LET RECURSIVE Upto(_)
        Upto(q) == IF q < 0 THEN 0
                   ELSE SumScores(RecordsOf(answers[pin][q], u)) + Upto(q - 1)
    IN Upto(Len(Questions) - 1)

EveryoneAnswered(pin, q) == Event("everyone_answered", NoRoom, pin, q, None)

\* C1: a question's answer list holds at most one record of a player, and a
\* submission of a player who has a record for the question leaves that record
\* as it is (rejected, nothing added, nothing overwritten)
C1_AtMostOneAnswer ==
    [][\A h \in Conns :
          (pc[h] = "l87" /\ pc'[h] = "l88") =>
              LET pin == conn[h].game_pin
                  q == sub[h].current_question
                  u == sub[h].username
                  old == RecordsOf(answers[pin][q], u)
                  new == RecordsOf(answers'[pin][q], u)
              IN /\ Len(new) <= 1
                 /\ old # <<>> => new = old]_vars

\* every player has one connection, the roster players all have an accepted
\* submission for question q, each call having read the same player count
\* N = |roster|, and no call is under way
AllSubmitted(pin, q) ==
    /\ players[pin] # {}
    /\ \A h \in Conns : ~InSubmit(h)
    /\ \A h1, h2 \in Conns :
          (h1 # h2 /\ conn[h1].username # None) => conn[h1].username # conn[h2].username
    /\ \A u \in players[pin] :
          \E h \in Conns : /\ conn[h].username = u
                           /\ conn[h].game_pin = pin
                           /\ lastResult[h] = Result("recorded", q, Cardinality(players[pin]))

\* C2: once all N roster players have submitted for a question, exactly one
\* everyone_answered event has been emitted for it
C2_CompletionExactlyOnce ==
    \A q \in QIndex :
        AllSubmitted("g1", q) => CopiesIn(EveryoneAnswered("g1", q), events) = 1

\* C5: while no submission of a player is under way, the player's score total is
\* the sum of the scores of the player's records
C5_TotalIsSumOfRecords ==
    \A u \in Names :
        (\A h \in Conns : InSubmit(h) => playerName[conn[h].player_id] # u)
            => player_scores["g1"][u] = RecordedScore("g1", u)

\* C6: a call of submit_answer_fn that read question_show = false changes no score
\* total and no answer list: it returns at line 57 and is never at one of the writes
C6_NoScoringWhenNotShown ==
    /\ [](\A h \in Conns : PastShowTest(h) => sub[h].question_show)
    /\ [][\A h \in Conns :
             (pc[h] = "l52" /\ pc'[h] # "l52" /\ sub[h].exists /\ ~sub[h].question_show
                 /\ playerName[conn[h].player_id] # None)
                 => /\ pc'[h] = "recv"
                    /\ lastResult'[h].kind = "not_shown"
                    /\ player_scores' = player_scores
                    /\ answers' = answers]_vars

\* a press in a closed question of a game with answers has returned unscored
C6_Witness ==
    \E h \in Conns :
        /\ lastResult[h].kind = "not_shown"
        /\ game["g1"].started
        /\ answers["g1"][0] # <<>>

\* C7: a press while the question is not shown is answered with a reply on the
\* connection it came from
C7_RejectionIsSent ==
    \A h \in Conns : lastResult[h].kind = "not_shown" => lastReply[h] # "none"

\* C8: when the submissions of two different players for a question have both
\* returned, the question's answer list holds a record of each of them
C8_BothRecorded ==
    \A h1, h2 \in Conns :
        (/\ conn[h1].username # conn[h2].username
         /\ conn[h1].game_pin = conn[h2].game_pin
         /\ lastResult[h1].kind = "recorded"
         /\ lastResult[h2].kind = "recorded"
         /\ lastResult[h1].q = lastResult[h2].q)
            => \A h \in {h1, h2} :
                  RecordsOf(answers[conn[h].game_pin][lastResult[h].q],
                            conn[h].username) # <<>>

\* the coroutine of the connection is running and has put itself in wss_clients
Live(h) == pc[h] \in {"l124", "l125", "l130", "recv"} \/ InSubmit(h)

\* C3: while the connection registered for an id lives, no other connection
\* takes its place in wss_clients nor removes it: a newer connection for the id
\* is closed with the going-away status
C3_OldConnectionKept ==
    [][\A i \in DOMAIN wss_clients :
          Live(wss_clients[i]) =>
              \/ /\ i \in DOMAIN wss_clients'
                 /\ wss_clients'[i] = wss_clients[i]
              \/ pc'[wss_clients[i]] = "disconnected"]_vars

\* C4: of the join_game calls for one game and one display name at most one is
\* answered with an identity
C4_NameUnique ==
    \A j1, j2 \in Joins :
        (/\ j1 # j2
         /\ jreq[j1].status = 200
         /\ jreq[j2].status = 200
         /\ jreq[j1].pin = jreq[j2].pin)
            => jreq[j1].name # jreq[j2].name

\* C9: the step that ends a connection on a disconnect takes the id out of
\* wss_clients and leaves score totals, answer records, rosters and the
\* identity-to-name mapping as they are; a connection attempt is closed as
\* already connected only for an id that is in wss_clients
C9_UnregisterKeepsState ==
    [][\A h \in Conns :
          /\ (pc[h] = "recv" /\ pc'[h] = "disconnected")
                => /\ conn[h].id \notin DOMAIN wss_clients'
                   /\ player_scores' = player_scores
                   /\ answers' = answers
                   /\ players' = players
                   /\ playerName' = playerName
          /\ (pc[h] = "idle" /\ pc'[h] = "closed")
                => conn'[h].id \in DOMAIN wss_clients]_vars

\* a player with a score and a record has disconnected, and a later connection
\* with the same id was accepted
C9_Witness ==
    \E h1, h2 \in Conns :
        /\ pc[h1] = "disconnected"
        /\ conn[h1].username \in players["g1"]
        /\ player_scores["g1"][conn[h1].username] > 0
        /\ RecordsOf(answers["g1"][0], conn[h1].username) # <<>>
        /\ conn[h2].id = conn[h1].id
        /\ pc[h2] = "recv"
        /\ wss_clients[conn[h2].id] = h2

\* C10: a connection that has ended with a disconnect has had a player_left
\* event emitted for its game
C10_PlayerLeftEmitted ==
    \A h \in Conns :
        pc[h] = "disconnected" =>
            \E e \in BagToSet(events) : e.name = "player_left" /\ e.pin = conn[h].game_pin

\* the roster players of the game whose connection is open (registered, past
\* line 130 and running)
ConnectedPlayers(pin) ==
    {conn[h].username :
        h \in {k \in Conns : (pc[k] = "recv" \/ InSubmit(k)) /\ conn[k].game_pin = pin}}

\* C11: once a roster player has disconnected, the player count a submission
\* reads is the number of players that are connected, and the accepted
\* submission that makes the answer list hold a record of every connected
\* player emits everyone_answered
C11_CountsConnectedPlayers ==
    [][\A h \in Conns :
          LET pin == conn[h].game_pin
              left == players[pin] \ ConnectedPlayers(pin)
          IN /\ (pc[h] = "l88" /\ pc'[h] = "l90" /\ left # {})
                   => sub'[h].player_count = Cardinality(ConnectedPlayers(pin))
             /\ (/\ pc[h] = "l90"
                 /\ pc'[h] = "recv"
                 /\ sub[h].ok
                 /\ left # {}
                 /\ \A u \in ConnectedPlayers(pin) : RecordsOf(sub[h].list, u) # <<>>)
                   => events' = Emit(EveryoneAnswered(pin, sub[h].current_question))]_vars

\* C12: a submission for a shown question that is neither a choice nor a voting
\* question leaves the answer list with a record of the player that has score 0,
\* and leaves the score totals as they are
C12_OtherTypesRecorded ==
    [][\A h \in Conns :
          LET pin == conn[h].game_pin
              q == sub[h].current_question
          IN (/\ pc[h] = "l59"
              /\ QuestionsOf(pin)[q + 1].type \notin {ABCD, VOTING}
              /\ sub[h].data_answer < Len(QuestionsOf(pin)[q + 1].answers)
              /\ pc'[h] # "l59")
                => /\ player_scores' = player_scores
                   /\ pc'[h] = "recv" =>
                        \E i \in 1..Len(answers'[pin][q]) :
                            /\ answers'[pin][q][i].username = sub[h].username
                            /\ answers'[pin][q][i].score = 0]_vars

\* the quiz marks that option of the question as right
MarkedRight(question, answer) ==
    \E i \in 1..Len(question.answers) :
        question.answers[i].answer = answer /\ question.answers[i].right

\* the record is one of a choice question's option that is marked right
CorrectChoice(pin, q, r) ==
    /\ QuestionsOf(pin)[q + 1].type = ABCD
    /\ MarkedRight(QuestionsOf(pin)[q + 1], r.answer)

ErrorReply(kind) == IF kind = "malformed" THEN "ValidationError" ELSE "InvalidButton"

\* C14: text that is no request, or a press of a button that does not exist,
\* sent on a connection whose id is registered is answered with the error reply
\* on that connection; the handler is back at receive_text, the registry is as
\* it was, and no score total, answer list or roster changes
C14_MalformedIsAnswered ==
    [][\A h \in Conns :
          (/\ pc[h] = "recv"
           /\ conn[h].id \in DOMAIN wss_clients
           /\ nmsg' = nmsg + 1
           /\ lastResult'[h].kind \in {"malformed", "unknown_button"})
             => /\ lastReply'[h] = ErrorReply(lastResult'[h].kind)
                /\ pc'[h] = "recv"
                /\ wss_clients' = wss_clients
                /\ <<player_scores, answers, players>>' = <<player_scores, answers, players>>]_vars

\* a registered handler has answered a press of a button that does not exist
\* after an earlier message and waits for the next one
C14_Witness ==
    \E h \in Conns :
        /\ pc[h] = "recv"
        /\ nmsg >= 2
        /\ lastResult[h].kind = "unknown_button"
        /\ lastReply[h] = "InvalidButton"
        /\ conn[h].id \in DOMAIN wss_clients
        /\ wss_clients[conn[h].id] = h

\* the status codes join_game raises
Rejections == {404, 400, 409}

\* C15: a join_game call whose code resolves to no game is answered 404, one that
\* finds its game started is answered 400; a call that is rejected has written
\* nothing to the store and holds no identity; a call that succeeds returns a
\* new identity, which resolves to the name the call gave
C15_JoinRejections ==
    /\ [][\A j \in Joins :
            /\ (jpc[j] = "idle" /\ jpc'[j] # "idle" /\ CodePin(jreq'[j].code) = None)
                  => jreq'[j].status = 404
            /\ (jpc[j] = "j32" /\ jpc'[j] # "j32" /\ game[jreq[j].pin].started)
                  => jreq'[j].status = 400
            /\ (jreq[j].status = 0 /\ jreq'[j].status \in Rejections)
                  => /\ storeVars' = storeVars
                     /\ jreq'[j].id = UnknownPlayer
                     /\ jpc'[j] = "done"
            /\ (jreq[j].status = 0 /\ jreq'[j].status = 200)
                  => /\ playerName[jreq'[j].id] = None
                     /\ playerName'[jreq'[j].id] = jreq[j].name]_vars
    /\ [](\A j \in Joins :
            /\ jreq[j].status \in Rejections => jreq[j].id = UnknownPlayer
            /\ jreq[j].status = 200 => playerName[jreq[j].id] = jreq[j].name)

\* one call was answered with an identity, another was rejected for a game that
\* has started
C15_Witness ==
    \E j1, j2 \in Joins :
        /\ jreq[j1].status = 200
        /\ playerName[jreq[j1].id] = jreq[j1].name
        /\ jreq[j2].status = 400
        /\ game[jreq[j2].pin].started

\* join_game returned that identity for a join of that game
MintedFor(player_id, pin) ==
    \E j \in Joins :
        /\ jreq[j].status = 200
        /\ jreq[j].id = player_id
        /\ jreq[j].pin = pin

\* C16: a connection adds to a game's roster (line 130), score totals (line 78)
\* and answer records (line 87) only with an identity that join_game returned
\* for that game
C16_IdentityBoundToGame ==
    [][\A h \in Conns :
          (\/ pc[h] = "l130" /\ pc'[h] = "recv"
           \/ pc[h] = "l78" /\ pc'[h] = "l86"
           \/ pc[h] = "l87" /\ pc'[h] = "l88")
             => MintedFor(conn[h].player_id, conn[h].game_pin)]_vars

\* the games whose listeners (player room or host room) receive an event emitted
\* to that room; without a room every client of the server receives it
Audience(room) == IF room = NoRoom THEN GamePins ELSE {room.pin}

\* C17: an everyone_answered event raised by a submission in one game is not
\* delivered to the listeners of another game that is running
C17_CompletionIsRoomScoped ==
    \A e \in BagToSet(events) :
        e.name = "everyone_answered" =>
            \A other \in GamePins \ {e.pin} :
                game[other].started => other \notin Audience(e.room)

\* C18: a press of a button whose index is beyond the answer list of the shown
\* question ends submit_answer_fn with no change to score totals, answer records
\* or the registry, and the handler is back at receive_text
C18_IndexBeyondAnswersIgnored ==
    [][\A h \in Conns :
          LET question == QuestionsOf(conn[h].game_pin)[sub[h].current_question + 1]
          IN (/\ pc[h] = "l59"
              /\ pc'[h] # "l59"
              /\ sub[h].data_answer >= Len(question.answers))
                => /\ pc'[h] = "recv"
                   /\ storeVars' = storeVars
                   /\ wss_clients' = wss_clients]_vars

\* C19: every key of wss_clients belongs to a handler that is still running
C19_RegistryHoldsRunningHandlers ==
    \A i \in DOMAIN wss_clients : Live(wss_clients[i])

\* C20: at the step that emits everyone_answered for a question, every player on
\* the roster of the game has a record in the answer list of that question
C20_NoPrematureCompletion ==
    [][\A h \in Conns :
          LET pin == conn[h].game_pin
              q == sub[h].current_question
          IN (pc[h] = "l90" /\ events' = Emit(EveryoneAnswered(pin, q)))
                => \A u \in players[pin] : RecordsOf(answers[pin][q], u) # <<>>]_vars

====
